---- MODULE Spec2Model ----
(***************************************************************************)
(* Model of js/app.js of invasive-species-intelligence (v0.4/v0.5): the    *)
(* prediction refresh (loadAILayer), the risk overlay                      *)
(* (renderRiskPolygons), the intelligence feed (updateAlertsFeed), the     *)
(* grid links (zoomToGrid), the side panel (updateSidePanel) and the       *)
(* status board (updateStatusUI, updateMasterStatus), the infrastructure   *)
(* layers (loadInfrastructure) and the collapsible panels                  *)
(* (setupUIInteractivity).                                                 *)
(*                                                                         *)
(* Strings whose characters matter (alert detail texts, grid tokens,       *)
(* region identifiers) are sequences of one-character strings.             *)
(***************************************************************************)
EXTENDS Integers, Sequences, FiniteSets, TLC

VARIABLES
    issued,       \* number of loadAILayer calls made so far (their sequence numbers are 1..issued)
    done,         \* completed calls in completion order: records [seq, ok]
    resp,         \* resp[r]: the parsed body call r received (NoData while none)
    overlay,      \* layerGroups.risk_overlay: the region layers, in insertion order
    feed,         \* .feed-container: [placeholder, items]
    dots,         \* class of each .status-row-dot, by element id
    masterLight,  \* class added to #master-status-light
    statusText,   \* innerText of #status-text
    panel,        \* #prediction-content: [shown, species, risk_score, color, expl, opacity]
    timers,       \* pending setTimeout(..., 200) callbacks of updateSidePanel, oldest first
    viewport,     \* 0: the start view; n: fitted to (and popup opened on) overlay[n]
    silent,       \* the calls whose request the service never answers
    logged,       \* the messages written with console.error
    uncaught,     \* an error was thrown out of a callback with no handler
    infra,        \* loadInfrastructure: [pc, barriers, treatments, trapping]
    ui,           \* the collapsible panels: [ready, headers, collapsed, sidebar, statusBoard, width, height]
    arg           \* the argument of the last call of the operation under study

vars == <<issued, done, resp, overlay, feed, dots, masterLight, statusText,
          panel, timers, viewport, silent, logged, uncaught, infra, ui, arg>>

(***************************************************************************)
(* Bounds of the model.                                                    *)
(***************************************************************************)
MaxCalls == 2

MaxRegions == 2

MaxFrags == 5

MaxSignals == 2

MaxHistorySignals == 1

MaxScore == 100

MaxPoints == 2

MaxTimers == 2

(***************************************************************************)
(* Characters and strings.                                                 *)
(***************************************************************************)
GridPrefix == <<"g", "r", "i", "d", "-">>

\* \w of the alphabet the model draws texts from (letters, digits, underscore).
WordChars == {"g", "r", "i", "d", "a", "A", "b", "0", "4", "2", "_"}

\* \w alone: the class without its hyphen
IsWordChar(c) == c \in WordChars

\* [\w-]
IsTokenChar(c) == c \in WordChars \/ c = "-"

RECURSIVE IsPrefixAt(_, _, _)
\* the literal p occurs in s at position i
IsPrefixAt(p, s, i) ==
    IF p = <<>> THEN TRUE
    ELSE /\ i <= Len(s)
         /\ s[i] = Head(p)
         /\ IsPrefixAt(Tail(p), s, i + 1)

RECURSIVE RunLength(_, _)
\* [\w-]+ is greedy: the number of consecutive token characters of s from position i
RunLength(s, i) ==
    IF i > Len(s) \/ ~IsTokenChar(s[i]) THEN 0
    ELSE 1 + RunLength(s, i + 1)

\* the shortest trailing run the pattern accepts: + is one or more
MinRun == 1

\* /(grid-[\w-]+)/ tried at position i: the length of the match, 0 when it fails
MatchAt(s, i) ==
    IF IsPrefixAt(GridPrefix, s, i) /\ RunLength(s, i + Len(GridPrefix)) >= MinRun
    THEN Len(GridPrefix) + RunLength(s, i + Len(GridPrefix))
    ELSE 0

RECURSIVE ScanFrom(_, _)
\* the g flag of String.replace: leftmost match from position i, then on from its end
ScanFrom(s, i) ==
    IF i > Len(s) THEN <<>>
    ELSE IF MatchAt(s, i) > 0
         THEN <<SubSeq(s, i, i + MatchAt(s, i) - 1)>> \o ScanFrom(s, i + MatchAt(s, i))
         ELSE ScanFrom(s, i + 1)

\* the $1 of every replacement: the arguments of the zoomToGrid links of one detail
GridLinks(detail) == ScanFrom(detail, 1)

(***************************************************************************)
(* Risk classes: getStyle (polygon) and updateSidePanel (score colour).    *)
(* A score is in hundredths: 80 is 0.8.                                    *)
(***************************************************************************)
MedThreshold == 50

HighThreshold == 80

RiskLow == "#10b981"

RiskMed == "#f59e0b"

RiskHigh == "#ef4444"

\* getStyle with >= in place of >
getStyleInclusive(score) ==
    LET c1 == IF score >= MedThreshold THEN RiskMed ELSE RiskLow
        c2 == IF score >= HighThreshold THEN RiskHigh ELSE c1
    IN  [color |-> c2,
         className |-> IF score >= HighThreshold THEN "risk-polygon-high" ELSE ""]

\* getStyle(props): the later "if" overrides the earlier one
getStyle(score) ==
    LET c1 == IF score > MedThreshold THEN RiskMed ELSE RiskLow
        c2 == IF score > HighThreshold THEN RiskHigh ELSE c1
    IN  [color |-> c2,
         className |-> IF score > HighThreshold THEN "risk-polygon-high" ELSE ""]

\* updateSidePanel's colour of #pred-score
ScoreColor(score) ==
    IF score > HighThreshold THEN RiskHigh
    ELSE IF score > MedThreshold THEN RiskMed
    ELSE RiskLow

(***************************************************************************)
(* Status board.                                                           *)
(***************************************************************************)
KnownSources == {"maritime", "us_data", "canada_data", "integrity", "infrastructure"}

\* a source name updateStatusUI's mapping does not list
OtherSource == "weather"

Levels == {"green", "yellow", "red"}

DotIds == {"dot-maritime", "dot-us", "dot-canada", "dot-gbif", "dot-glfc"}

\* a mapping that sends every other key to the integrity indicator
mappingWithFallback(key) ==
    CASE key = "maritime" -> "dot-maritime"
      [] key = "us_data" -> "dot-us"
      [] key = "canada_data" -> "dot-canada"
      [] key = "integrity" -> "dot-gbif"
      [] key = "infrastructure" -> "dot-glfc"
      [] OTHER -> "dot-gbif"

\* const mapping = {...}: undefined (here "") for any other key
mapping(key) ==
    CASE key = "maritime" -> "dot-maritime"
      [] key = "us_data" -> "dot-us"
      [] key = "canada_data" -> "dot-canada"
      [] key = "integrity" -> "dot-gbif"
      [] key = "infrastructure" -> "dot-glfc"
      [] OTHER -> ""

\* the class a dot carries next to 'status-row-dot' after it was set from level
DotClass(level) == IF level # "green" THEN level ELSE "none"

\* SetDots without "dot.className = 'status-row-dot'": a level class once added stays
SetDotsNoReset(d, health) ==
    [id \in DotIds |->
        IF \E key \in DOMAIN health : mapping(key) = id /\ health[key] # "green"
        THEN health[CHOOSE key \in DOMAIN health : mapping(key) = id]
        ELSE d[id]]

\* Object.keys(health).forEach(...): every key with a dot resets and sets that dot;
\* the keys of one object are distinct, so the order of the loop does not matter
SetDots(d, health) ==
    [id \in DotIds |->
        IF \E key \in DOMAIN health : mapping(key) = id
        THEN DotClass(health[CHOOSE key \in DOMAIN health : mapping(key) = id])
        ELSE d[id]]

\* the first declaration of updateMasterStatus taking effect: yellow on any red dot
MasterStatusFirstDeclaration(d) ==
    IF \E id \in DotIds : d[id] = "red"
    THEN [light |-> "yellow", text |-> "Syncing Data..."]
    ELSE [light |-> "active", text |-> "Live Model Connected"]

\* updateMasterStatus (the second declaration, which replaces the first)
MasterStatus(d) ==
    LET hasError == \E id \in DotIds : d[id] = "red"
        hasWarning == \E id \in DotIds : d[id] = "yellow"
    IN  IF hasError THEN [light |-> "red", text |-> "System Offline"]
        ELSE IF hasWarning THEN [light |-> "yellow", text |-> "Syncing Data..."]
        ELSE [light |-> "active", text |-> "Live Model Connected"]

\* the health object of loadAILayer's catch block
FailureHealth ==
    [key \in {"maritime", "us_data", "canada_data", "integrity"} |->
        IF key = "maritime" THEN "green" ELSE "red"]

(***************************************************************************)
(* The body of a /predict response, as far as loadAILayer reads it.        *)
(* has: the fields present; a region is [id, hasProps, hasDrivers,         *)
(* risk_score] (hasProps FALSE: no "properties"; hasDrivers FALSE:         *)
(* properties without "drivers"); an alert is [type, hasDetail, detail];   *)
(* health maps source names to levels.                                     *)
(***************************************************************************)
NoData == [has |-> {}, regions |-> <<>>, alerts |-> <<>>, health |-> <<>>]

Body(regions, alerts, health, has) ==
    [has |-> has,
     regions |-> IF "regions" \in has THEN regions ELSE <<>>,
     alerts |-> IF "alerts" \in has THEN alerts ELSE <<>>,
     health |-> IF "health" \in has THEN health ELSE <<>>]

RECURSIVE renderRiskPolygons(_, _)
\* regions.forEach(...): getStyle(region.properties) throws on a region without
\* properties and ends the loop; the layers added before it stay in the group
renderRiskPolygons(ov, regions) ==
    IF regions = <<>> THEN [overlay |-> ov, threw |-> FALSE]
    ELSE IF ~Head(regions).hasProps THEN [overlay |-> ov, threw |-> TRUE]
    ELSE renderRiskPolygons(
            Append(ov, [regionId |-> Head(regions).id,
                        style |-> getStyle(Head(regions).risk_score),
                        props |-> Head(regions)]),
            Tail(regions))

\* updateAlertsFeed with "innerHTML +=": the new items follow those already shown
updateAlertsFeedAppending(fd, alerts) ==
    IF Len(alerts) = 0
    THEN [feed |-> [placeholder |-> TRUE, items |-> fd.items], threw |-> FALSE]
    ELSE IF \E i \in 1..Len(alerts) : ~alerts[i].hasDetail
    THEN [feed |-> fd, threw |-> TRUE]
    ELSE [feed |-> [placeholder |-> fd.placeholder,
                    items |-> fd.items \o
                              [i \in 1..Len(alerts) |->
                                 [type |-> alerts[i].type,
                                  detail |-> alerts[i].detail,
                                  links |-> GridLinks(alerts[i].detail)]]],
          threw |-> FALSE]

\* updateAlertsFeed(alerts): alert.detail.replace throws on an alert without detail,
\* before innerHTML is assigned
updateAlertsFeed(fd, alerts) ==
    IF Len(alerts) = 0
    THEN [feed |-> [placeholder |-> TRUE, items |-> <<>>], threw |-> FALSE]
    ELSE IF \E i \in 1..Len(alerts) : ~alerts[i].hasDetail
    THEN [feed |-> fd, threw |-> TRUE]
    ELSE [feed |-> [placeholder |-> FALSE,
                    items |-> [i \in 1..Len(alerts) |->
                                 [type |-> alerts[i].type,
                                  detail |-> alerts[i].detail,
                                  links |-> GridLinks(alerts[i].detail)]]],
          threw |-> FALSE]

\* updateStatusUI(health), as reassigned at the end of the script: the original, which
\* sets the dots and calls updateMasterStatus, then updateMasterStatus once more
updateStatusUI(d, health) ==
    LET d1 == SetDots(d, health)
    IN  [dots |-> d1, master |-> MasterStatus(d1)]

\* the try block of loadAILayer from "const data = await response.json()" on, and its
\* catch block: the state it leaves, and whether it ended in the catch block
ApplyBody(data) ==
    LET noRegions == "regions" \notin data.has
        rr == renderRiskPolygons(overlay, data.regions)
        ua == IF "alerts" \in data.has
              THEN updateAlertsFeed(feed, data.alerts)
              ELSE [feed |-> feed, threw |-> FALSE]
        threw == noRegions \/ rr.threw \/ ua.threw
        sidePanel == ~threw /\ Len(data.regions) > 0
        health == IF threw THEN FailureHealth
                  ELSE IF "health" \in data.has THEN data.health
                  ELSE <<>>
        st == updateStatusUI(dots, health)
        statusCalled == threw \/ "health" \in data.has
    IN  [overlay |-> IF noRegions THEN overlay ELSE rr.overlay,
         feed |-> IF noRegions \/ rr.threw THEN feed ELSE ua.feed,
         timers |-> IF sidePanel THEN Append(timers, data.regions[1]) ELSE timers,
         opacity |-> IF sidePanel THEN "0.5" ELSE panel.opacity,
         dots |-> st.dots,
         light |-> IF statusCalled THEN st.master.light ELSE masterLight,
         text |-> IF statusCalled THEN st.master.text ELSE statusText,
         threw |-> threw]

Pending == {r \in 1..issued : \A i \in 1..Len(done) : done[i].seq # r}

\* the pending calls whose request the service answers or the network rejects
Answerable == Pending \ silent

\* console.error("Failed to load AI Layer:", error)
AILayerError == "Failed to load AI Layer:"

\* loadAILayer() clearing the risk overlay before it fetches
CallLoadAILayerClearing(limit) ==
    /\ issued < limit
    /\ issued' = issued + 1
    /\ overlay' = <<>>
    /\ UNCHANGED <<done, resp, feed, dots, masterLight, statusText,
                   panel, timers, viewport, silent, logged, uncaught, infra, ui, arg>>

\* loadAILayer() up to "await fetch(apiUrl)"
CallLoadAILayer(limit) ==
    /\ issued < limit
    /\ issued' = issued + 1
    /\ UNCHANGED <<done, resp, overlay, feed, dots, masterLight, statusText,
                   panel, timers, viewport, silent, logged, uncaught, infra, ui, arg>>

\* fetch rejects, response.ok is false or response.json() rejects: the catch block
FetchFails(r) ==
    /\ r \in Answerable
    /\ done' = Append(done, [seq |-> r, ok |-> FALSE])
    /\ logged' = logged \cup {AILayerError}
    /\ dots' = updateStatusUI(dots, FailureHealth).dots
    /\ masterLight' = updateStatusUI(dots, FailureHealth).master.light
    /\ statusText' = updateStatusUI(dots, FailureHealth).master.text
    /\ UNCHANGED <<issued, resp, overlay, feed, panel, timers, viewport, silent,
                   uncaught, infra, ui, arg>>

\* the body of call r arrives and is applied in one turn of the event loop
ResponseArrives(r, data) ==
    /\ r \in Answerable
    /\ \E a \in {ApplyBody(data)} :
           /\ done' = Append(done, [seq |-> r, ok |-> ~a.threw])
           /\ logged' = IF a.threw THEN logged \cup {AILayerError} ELSE logged
           /\ resp' = [resp EXCEPT ![r] = data]
           /\ overlay' = a.overlay
           /\ feed' = a.feed
           /\ timers' = a.timers
           /\ panel' = [panel EXCEPT !.opacity = a.opacity]
           /\ dots' = a.dots
           /\ masterLight' = a.light
           /\ statusText' = a.text
    /\ UNCHANGED <<issued, viewport, silent, uncaught, infra, ui, arg>>

\* the callback updateSidePanel deferred by 200 ms, run for props: species, score and
\* colour are written, then "props.drivers.map" throws on properties without drivers,
\* before the explanation is written and the opacity restored; nothing catches it
SidePanelWrite(pn, props) ==
    [panel |-> [shown |-> TRUE,
                species |-> props.id,
                risk_score |-> props.risk_score,
                color |-> ScoreColor(props.risk_score),
                expl |-> IF props.hasDrivers THEN props.id ELSE pn.expl,
                opacity |-> IF props.hasDrivers THEN "1" ELSE pn.opacity],
     threw |-> ~props.hasDrivers]

\* the oldest pending callback runs; equal delays run in request order
SidePanelTimer ==
    /\ timers # <<>>
    /\ timers' = Tail(timers)
    /\ panel' = SidePanelWrite(panel, Head(timers)).panel
    /\ uncaught' = (uncaught \/ SidePanelWrite(panel, Head(timers)).threw)
    /\ UNCHANGED <<issued, done, resp, overlay, feed, dots, masterLight, statusText,
                   viewport, silent, logged, infra, ui, arg>>

\* the upper-case letter of the alphabet folded to lower case
Lower(c) == IF c = "A" THEN "a" ELSE c

\* a comparison that ignores case
SameIdIgnoreCase(regionId, gridId) ==
    /\ Len(regionId) = Len(gridId)
    /\ \A k \in 1..Len(gridId) : Lower(regionId[k]) = Lower(gridId[k])

\* layer.regionId === gridId
SameId(regionId, gridId) == regionId = gridId

\* window.zoomToGrid(gridId): eachLayer visits the layers in insertion order and the
\* last one that matches stays in foundLayer; 0 when none matches
FoundLayer(ov, gridId) ==
    LET hits == {n \in 1..Len(ov) : SameId(ov[n].regionId, gridId)}
    IN  IF hits = {} THEN 0 ELSE CHOOSE n \in hits : \A m \in hits : m <= n

\* a click on the j-th grid link of the i-th feed item
ZoomToGrid(i, j) ==
    /\ i \in 1..Len(feed.items)
    /\ j \in 1..Len(feed.items[i].links)
    /\ LET gridId == feed.items[i].links[j]
           found == FoundLayer(overlay, gridId)
       IN  /\ viewport' = IF found # 0 THEN found ELSE viewport
           /\ arg' = [op |-> "zoomToGrid", gridId |-> gridId, found |-> found,
                      before |-> viewport]
    /\ UNCHANGED <<issued, done, resp, overlay, feed, dots, masterLight, statusText,
                   panel, timers, silent, logged, uncaught, infra, ui>>

\* a click on the n-th region layer of the overlay: updateSidePanel with the
\* properties of its region (the popup it opens is not modelled)
ClickRegion(n) ==
    /\ n \in 1..Len(overlay)
    /\ timers' = Append(timers, overlay[n].props)
    /\ panel' = [panel EXCEPT !.opacity = "0.5"]
    /\ arg' = [op |-> "click", layer |-> n]
    /\ UNCHANGED <<issued, done, resp, overlay, feed, dots, masterLight, statusText,
                   viewport, silent, logged, uncaught, infra, ui>>

\* the service stops answering: the request of pending call r gets no response and no
\* rejection, and fetch(apiUrl) is given no signal and no timer to end the wait
ServiceSilent(r) ==
    /\ r \in Answerable
    /\ silent' = silent \cup {r}
    /\ UNCHANGED <<issued, done, resp, overlay, feed, dots, masterLight, statusText,
                   panel, timers, viewport, logged, uncaught, infra, ui, arg>>

(***************************************************************************)
(* loadInfrastructure. A point is [hasType, type, fc]; a marker is         *)
(* [color, radius].                                                        *)
(***************************************************************************)
\* console.error("Infrastructure loading failed:", e)
InfrastructureError == "Infrastructure loading failed:"

\* the group and the marker of one point
PointMarker(pt) ==
    IF pt.type = "treatment"
    THEN [group |-> "treatments", color |-> "#ec4899", radius |-> 4]
    ELSE IF pt.type = "trapping"
    THEN [group |-> "trapping", color |-> "#facc15", radius |-> 6]
    ELSE IF pt.type = "barrier" /\ pt.fc = "No"
    THEN [group |-> "barriers", color |-> "#f87171", radius |-> 5]
    ELSE [group |-> "barriers", color |-> "#38bdf8", radius |-> 5]

RECURSIVE AddPoints(_, _)
\* data.points.forEach(...): pt.type.charAt throws on a point without a type, before
\* its marker is added; the markers added before it stay
AddPoints(inf, points) ==
    IF points = <<>> THEN [infra |-> inf, threw |-> FALSE]
    ELSE IF ~Head(points).hasType THEN [infra |-> inf, threw |-> TRUE]
    ELSE LET m == PointMarker(Head(points))
         IN  AddPoints(
                [inf EXCEPT ![m.group] =
                                Append(@, [color |-> m.color, radius |-> m.radius])],
                Tail(points))

\* loadInfrastructure() up to "await fetch(apiUrl)"
CallLoadInfrastructure ==
    /\ infra.pc = "idle"
    /\ infra' = [infra EXCEPT !.pc = "pending"]
    /\ UNCHANGED <<issued, done, resp, overlay, feed, dots, masterLight, statusText,
                   panel, timers, viewport, silent, logged, uncaught, ui, arg>>

\* a catch block that also marks the infrastructure source red
InfrastructureCatchMarksRed(d) == [d EXCEPT !["dot-glfc"] = "red"]

\* the catch block of loadInfrastructure: the error is logged, no indicator is touched
InfrastructureCatch(d) == d

\* fetch rejects, response.ok is false or response.json() rejects
InfrastructureFails ==
    /\ infra.pc = "pending"
    /\ infra' = [infra EXCEPT !.pc = "done"]
    /\ logged' = logged \cup {InfrastructureError}
    /\ dots' = InfrastructureCatch(dots)
    /\ UNCHANGED <<issued, done, resp, overlay, feed, masterLight, statusText, panel,
                   timers, viewport, silent, uncaught, ui, arg>>

\* the body arrives; hasPoints FALSE: no "points", data.points.forEach throws
InfrastructureArrives(hasPoints, points) ==
    /\ infra.pc = "pending"
    /\ \E a \in {IF hasPoints THEN AddPoints(infra, points)
                  ELSE [infra |-> infra, threw |-> TRUE]} :
           /\ infra' = [a.infra EXCEPT !.pc = "done"]
           /\ logged' = IF a.threw THEN logged \cup {InfrastructureError} ELSE logged
           /\ dots' = IF a.threw THEN InfrastructureCatch(dots) ELSE dots
    /\ UNCHANGED <<issued, done, resp, overlay, feed, masterLight, statusText, panel,
                   timers, viewport, silent, uncaught, ui, arg>>

(***************************************************************************)
(* setupUIInteractivity: the sidebar, the status board and the sections of *)
(* the sidebar. ui.collapsed is the set of sections carrying 'collapsed';  *)
(* ui.headers the sections whose header is a '.section-header'.            *)
(***************************************************************************)
MobileWidth == 768

SmallHeight == 700

\* the '.panel-section' elements of the sidebar
Sections == {"layers-section", "analysis-section", "feed-section"}

\* handleResize's isSmallScreen
IsSmallScreen(w, h) == w <= MobileWidth \/ h <= SmallHeight

\* handleResize: both panels are forced collapsed on a small screen, open on a large one
handleResize(u) ==
    [u EXCEPT !.sidebar = IsSmallScreen(u.width, u.height),
              !.statusBoard = IsSmallScreen(u.width, u.height)]

\* DOMContentLoaded: the handlers are attached, every section but 'feed-section' is
\* collapsed, and the mobile check and handleResize set the two panels
SetupUIInteractivity ==
    /\ ~ui.ready
    /\ ui' = handleResize([ui EXCEPT !.ready = TRUE,
                                     !.collapsed = Sections \ {"feed-section"}])
    /\ UNCHANGED <<issued, done, resp, overlay, feed, dots, masterLight, statusText,
                   panel, timers, viewport, silent, logged, uncaught, infra, arg>>

\* togglePanel(sidebar, sidebarIcon) on a click of #sidebar-toggle
ClickSidebarToggle ==
    /\ ui.ready
    /\ ui' = [ui EXCEPT !.sidebar = ~@]
    /\ UNCHANGED <<issued, done, resp, overlay, feed, dots, masterLight, statusText,
                   panel, timers, viewport, silent, logged, uncaught, infra, arg>>

\* togglePanel(statusBoard, statusIcon) on a click of #status-toggle
ClickStatusToggle ==
    /\ ui.ready
    /\ ui' = [ui EXCEPT !.statusBoard = ~@]
    /\ UNCHANGED <<issued, done, resp, overlay, feed, dots, masterLight, statusText,
                   panel, timers, viewport, silent, logged, uncaught, infra, arg>>

\* a click on the '.section-header' of section sec: section.classList.toggle('collapsed')
ClickSectionHeader(sec) ==
    /\ ui.ready
    /\ sec \in ui.headers
    /\ ui' = [ui EXCEPT !.collapsed = IF sec \in @ THEN @ \ {sec} ELSE @ \cup {sec}]
    /\ UNCHANGED <<issued, done, resp, overlay, feed, dots, masterLight, statusText,
                   panel, timers, viewport, silent, logged, uncaught, infra, arg>>

\* the window takes the size w x h; handleResize runs once the listener is attached
Resize(w, h) ==
    /\ <<w, h>> # <<ui.width, ui.height>>
    /\ ui' = IF ui.ready
             THEN handleResize([ui EXCEPT !.width = w, !.height = h])
             ELSE [ui EXCEPT !.width = w, !.height = h]
    /\ UNCHANGED <<issued, done, resp, overlay, feed, dots, masterLight, statusText,
                   panel, timers, viewport, silent, logged, uncaught, infra, arg>>

(***************************************************************************)
(* The page after the script has run, before any response: an empty        *)
(* overlay, and the markup's feed, status board and side panel.            *)
(***************************************************************************)
InitialFeed == [placeholder |-> FALSE, items |-> <<>>]

InitialDots == [id \in DotIds |-> "none"]

InitialMaster == [light |-> "none", text |-> ""]

InitialPanel ==
    [shown |-> FALSE, species |-> <<>>, risk_score |-> 0, color |-> "", expl |-> <<>>,
     opacity |-> "1"]

NoCall == [op |-> "none"]

\* the panels as the markup gives them, on a large window
InitialUI ==
    [ready |-> FALSE, headers |-> Sections, collapsed |-> {}, sidebar |-> FALSE,
     statusBoard |-> FALSE, width |-> MobileWidth + 1, height |-> SmallHeight + 1]

\* the layer groups of the infrastructure points, empty until the points arrive
InitialInfra ==
    [pc |-> "idle", barriers |-> <<>>, treatments |-> <<>>, trapping |-> <<>>]

\* the page with the panels u
StartPage(a, u) ==
    /\ issued = 0
    /\ done = <<>>
    /\ resp = [r \in 1..MaxCalls |-> NoData]
    /\ overlay = <<>>
    /\ feed = InitialFeed
    /\ dots = InitialDots
    /\ masterLight = InitialMaster.light
    /\ statusText = InitialMaster.text
    /\ panel = InitialPanel
    /\ timers = <<>>
    /\ viewport = 0
    /\ silent = {}
    /\ logged = {}
    /\ uncaught = FALSE
    /\ infra = InitialInfra
    /\ ui = u
    /\ arg = a

Start(a) == StartPage(a, InitialUI)

\* the single loadAILayer() call of the script
StartupCalls == 1

(***************************************************************************)
(* Inputs.                                                                 *)
(***************************************************************************)
RECURSIVE SeqsUpTo(_, _)
\* the sequences over S of length at most n
SeqsUpTo(S, n) ==
    IF n = 0 THEN {<<>>}
    ELSE LET T == SeqsUpTo(S, n - 1)
         IN  T \cup {Append(t, x) : t \in T, x \in S}

Region(id, score) ==
    [id |-> id, hasProps |-> TRUE, hasDrivers |-> TRUE, risk_score |-> score]

\* a region without "properties"
Malformed(id) == [id |-> id, hasProps |-> FALSE, hasDrivers |-> FALSE, risk_score |-> 0]

\* a region whose properties carry no "drivers"
NoDrivers(id, score) ==
    [id |-> id, hasProps |-> TRUE, hasDrivers |-> FALSE, risk_score |-> score]

Alert(type, detail) == [type |-> type, hasDetail |-> TRUE, detail |-> detail]

\* an alert without "detail"
MalformedAlert == [type |-> "INFO", hasDetail |-> FALSE, detail |-> <<>>]

IdA == GridPrefix \o <<"a">>

IdB == GridPrefix \o <<"b">>

IdUpperA == GridPrefix \o <<"A">>

IdBareA == <<"a">>

AllGreen == [key \in KnownSources |-> "green"]

\* region.id absent: geoLayer.regionId is undefined, which equals no token
NoId == <<"undefined">>

A1 == Alert("CRITICAL", IdA \o <<" ">> \o IdUpperA)

A2 == Alert("SIGNAL", IdB)

(***************************************************************************)
(* Spec: loadAILayer re-invoked by a caller (a scheduler, a retry), up to  *)
(* MaxCalls times, a call possibly issued while earlier ones are pending.  *)
(* The bodies vary one field at a time around a well-formed one.           *)
(***************************************************************************)
RegionSamples ==
    {<<>>, <<Region(IdA, 90)>>, <<Region(IdB, 40)>>, <<NoDrivers(IdA, 90)>>,
     <<Region(IdB, 40), Malformed(IdA), Region(IdA, 90)>>}

AlertSamples == {<<>>, <<A1, A2>>, <<A2>>}

HealthSamples ==
    {AllGreen, [key \in {"us_data"} |-> "yellow"], [key \in {"infrastructure"} |-> "red"],
     [key \in {"maritime"} |-> "yellow"]}

AllFields == {"regions", "alerts", "health"}

Responses ==
    {Body(rs, <<A1, A2>>, AllGreen, AllFields) : rs \in RegionSamples}
    \cup {Body(<<Region(IdA, 90)>>, al, AllGreen, AllFields) : al \in AlertSamples}
    \cup {Body(<<Region(IdB, 40)>>, <<A2>>, h, AllFields) : h \in HealthSamples}
    \cup {Body(<<Region(IdB, 40)>>, <<A2>>, AllGreen, has) :
            has \in {{"regions"}, {"regions", "alerts"}, {"alerts", "health"}}}

Init == Start(NoCall)

Next ==
    \/ CallLoadAILayer(MaxCalls)
    \/ \E r \in Pending : FetchFails(r)
    \/ \E r \in Pending : \E data \in Responses : ResponseArrives(r, data)
    \/ SidePanelTimer

Spec == Init /\ [][Next]_vars

(***************************************************************************)
(* Properties of the refresh cycle (Spec).                                 *)
(***************************************************************************)
LastDone == done[Len(done)]

\* the step completes a call; Completes(ok): with that outcome
Completes(ok) == Len(done') = Len(done) + 1 /\ done'[Len(done')].ok = ok

OverlayIds == [n \in 1..Len(overlay) |-> overlay[n].regionId]

RegionIds(regions) == [n \in 1..Len(regions) |-> regions[n].id]

\* the alerts of a body as the feed shows them
FeedShows(alerts) ==
    IF alerts = <<>> THEN feed.placeholder /\ feed.items = <<>>
    ELSE /\ ~feed.placeholder
         /\ Len(feed.items) = Len(alerts)
         /\ \A i \in 1..Len(alerts) :
              /\ feed.items[i].type = alerts[i].type
              /\ feed.items[i].detail = alerts[i].detail

\* every known source named in h shows the level h gives it
DotsShow(d, h) ==
    \A key \in DOMAIN h \cap KnownSources :
        d[mapping(key)] = (IF h[key] = "green" THEN "none" ELSE h[key])

\* the indicators of the sources h does not name are those of d0
DotsKept(d, d0, h) ==
    \A id \in DotIds :
        (\A key \in DOMAIN h : mapping(key) # id) => d[id] = d0[id]

\* the last call that completed without reaching the catch block, 0 when none did
LastSuccess ==
    LET oks == {i \in 1..Len(done) : done[i].ok}
    IN  IF oks = {} THEN 0 ELSE done[CHOOSE i \in oks : \A j \in oks : j <= i].seq

\* C1: a refresh that fails, at whatever point, leaves the region layers of the risk
\* overlay and the rendered alert feed exactly as they were before the call completed.
C1_FailedRefreshChangesNothing ==
    [][Completes(FALSE) => (overlay' = overlay /\ feed' = feed)]_vars

\* C2: after any number of successful refreshes the overlay holds exactly the regions
\* of the most recent successful response, none of an earlier one.
C2_OverlayIsLatestResponse ==
    LastSuccess # 0 => OverlayIds = RegionIds(resp[LastSuccess].regions)

\* C5: when the response of an earlier-issued call arrives after the response of a
\* later-issued call has been applied, it is discarded: it overwrites no region, alert,
\* side-panel request or health indicator, so the later-issued call's state stays.
C5_StaleResponseDiscarded ==
    [][(/\ Completes(TRUE)
        /\ \E i \in 1..Len(done) : done[i].ok /\ done[i].seq > done'[Len(done')].seq)
       => UNCHANGED <<overlay, feed, dots, masterLight, statusText, panel, timers>>]_vars

\* the health signal set a completing call applies: the response's on a success that
\* carries one, the synthesized set on a failure, none otherwise
AppliedHealth ==
    IF ~done'[Len(done')].ok THEN FailureHealth
    ELSE resp'[done'[Len(done')].seq].health

C11_FailureKeepsLocalSources ==
    [][Completes(FALSE)
        => /\ dots'["dot-us"] = "red"
           /\ dots'["dot-canada"] = "red"
           /\ dots'["dot-gbif"] = "red"
           /\ masterLight' = "red"
           /\ statusText' = "System Offline"
           /\ dots'["dot-maritime"] = dots["dot-maritime"]
           /\ dots'["dot-glfc"] = dots["dot-glfc"]]_vars

\* the feed fd shows exactly the alerts, one item each, in their order; the placeholder
\* alone for the empty list
FeedShowsIn(fd, alerts) ==
    IF alerts = <<>> THEN fd.placeholder /\ fd.items = <<>>
    ELSE /\ ~fd.placeholder
         /\ Len(fd.items) = Len(alerts)
         /\ \A i \in 1..Len(alerts) :
              /\ fd.items[i].type = alerts[i].type
              /\ fd.items[i].detail = alerts[i].detail

\* C13: a successful refresh whose response carries an alerts list leaves the feed
\* showing exactly the alerts of that response, one item per alert in the order of the
\* response, none of an earlier response; the empty list shows only the placeholder.
C13_FeedIsResponseAlerts ==
    [][(Completes(TRUE) /\ "alerts" \in resp'[done'[Len(done')].seq].has)
        => FeedShowsIn(feed', resp'[done'[Len(done')].seq].alerts)]_vars

\* two alerts shown by one refresh were replaced by the single alert of the next
C13_Witness ==
    /\ Len(done) = 2
    /\ done[1].ok /\ done[2].ok
    /\ "alerts" \in resp[done[1].seq].has
    /\ resp[done[1].seq].alerts = <<A1, A2>>
    /\ "alerts" \in resp[done[2].seq].has
    /\ resp[done[2].seq].alerts = <<A2>>
    /\ Len(feed.items) = 1
    /\ feed.items[1].detail = IdB

\* C14: no failure inside a refresh cycle escapes as an uncaught error: every error
\* raised while fetching a response or applying it to the regions, the feed, the side
\* panel (its deferred update included) or the health indicators is caught and logged,
\* and leaves the remote sources red under a red master status.
C14_NoUncaughtError ==
    /\ ~uncaught
    /\ (done # <<>> /\ ~LastDone.ok)
        => /\ AILayerError \in logged
           /\ dots["dot-us"] = "red"
           /\ masterLight = "red"

\* C18: while a request is in flight, between issuing the fetch and receiving the body,
\* that call changes none of the risk overlay, the alert feed, the side panel and the
\* health indicators: a step that neither completes a call nor runs a deferred
\* side-panel callback leaves all of them as they were.
C18_InFlightChangesNothing ==
    [][(/\ Len(done') = Len(done)
        /\ ~(timers # <<>> /\ timers' = Tail(timers)))
       => UNCHANGED <<overlay, feed, panel, timers, dots, masterLight, statusText>>]_vars

\* a second call in flight over the overlay, feed and indicators the first one left
C18_Witness ==
    /\ issued = 2
    /\ Len(done) = 1
    /\ done[1].ok
    /\ overlay # <<>>
    /\ OverlayIds = RegionIds(resp[done[1].seq].regions)
    /\ FeedShows(resp[done[1].seq].alerts)

(***************************************************************************)
(* SpecInfra: the page as shipped. The script calls loadInfrastructure     *)
(* once and loadAILayer once; the two requests complete in any order. The  *)
(* infrastructure body carries up to MaxPoints points.                     *)
(***************************************************************************)
Point(type, fc) == [hasType |-> TRUE, type |-> type, fc |-> fc]

\* a point without "type"
MalformedPoint == [hasType |-> FALSE, type |-> "", fc |-> ""]

PointKinds ==
    {Point("barrier", "Yes"), Point("barrier", "No"), Point("treatment", ""),
     Point("trapping", ""), Point("weir", "No"), MalformedPoint}

InfraResponses ==
    {Body(<<Region(IdA, 90)>>, <<A2>>, h, AllFields) :
        h \in {AllGreen, [key \in {"infrastructure", "integrity"} |-> "yellow"]}}

NextInfra ==
    \/ CallLoadAILayer(StartupCalls)
    \/ \E r \in Pending : FetchFails(r)
    \/ \E r \in Pending : \E data \in InfraResponses : ResponseArrives(r, data)
    \/ SidePanelTimer
    \/ CallLoadInfrastructure
    \/ InfrastructureFails
    \/ \E hasPoints \in BOOLEAN : \E points \in SeqsUpTo(PointKinds, MaxPoints) :
           InfrastructureArrives(hasPoints, points)

SpecInfra == Init /\ [][NextInfra]_vars

\* C12: a step of loadInfrastructure, whether the request is issued, succeeds or fails
\* and whatever the state of the prediction refresh, changes no source indicator, not
\* the master status, the risk overlay, the alert feed or the side panel; a failure
\* adds its console.error message and no uncaught error.
C12_InfrastructureTouchesNoStatus ==
    [][infra' # infra
        => /\ UNCHANGED <<dots, masterLight, statusText, overlay, feed, panel, timers,
                          uncaught>>
           /\ logged' \in {logged, logged \cup {InfrastructureError}}]_vars

\* the infrastructure request failed while the indicators show the yellow signals of a
\* prediction response, which stay as that response set them
C12_Witness ==
    /\ infra.pc = "done"
    /\ InfrastructureError \in logged
    /\ Len(done) = 1
    /\ done[1].ok
    /\ dots["dot-glfc"] = "yellow"
    /\ dots["dot-gbif"] = "yellow"
    /\ masterLight = "yellow"

(***************************************************************************)
(* SpecUI: the panels. The markup gives any section the class 'collapsed'  *)
(* or not, and the feed section a '.section-header' like the others or     *)
(* none; the window is small or large in either dimension.                 *)
(***************************************************************************)
Widths == {MobileWidth, MobileWidth + 1}

Heights == {SmallHeight, SmallHeight + 1}

Markups ==
    {[InitialUI EXCEPT !.headers = hs, !.collapsed = cs, !.width = w, !.height = h] :
        hs \in {Sections, Sections \ {"feed-section"}}, cs \in SUBSET Sections,
        w \in Widths, h \in Heights}

InitUI == \E u \in Markups : StartPage(NoCall, u)

NextUI ==
    \/ SetupUIInteractivity
    \/ ClickSidebarToggle
    \/ ClickStatusToggle
    \/ \E sec \in Sections : ClickSectionHeader(sec)
    \/ \E w \in Widths : \E h \in Heights : Resize(w, h)

SpecUI == InitUI /\ [][NextUI]_vars

\* C15: the Intelligence Feed section is always open: after initialization and after
\* any sequence of section-header clicks, sidebar or status-board toggles and window
\* resizes, the section 'feed-section' is never in the collapsed state.
C15_FeedSectionAlwaysOpen == ui.ready => "feed-section" \notin ui.collapsed

(***************************************************************************)
(* SpecLive: the refresh cycle of Spec with a service that may stop        *)
(* answering a request. The event loop runs what is ready: the             *)
(* continuation of a call whose response or rejection the network          *)
(* delivers, and every deferred side-panel callback.                       *)
(***************************************************************************)
\* call r ends, in the try block or in the catch block
Completion ==
    \/ \E r \in Answerable : FetchFails(r)
    \/ \E r \in Answerable : \E data \in Responses : ResponseArrives(r, data)

NextLive ==
    \/ CallLoadAILayer(MaxCalls)
    \/ \E r \in Answerable : ServiceSilent(r)
    \/ Completion
    \/ SidePanelTimer

SpecLive ==
    /\ Init
    /\ [][NextLive]_vars
    /\ WF_vars(Completion)
    /\ WF_vars(SidePanelTimer)

\* call r was issued and has ended
Ended(r) == \E i \in 1..Len(done) : done[i].seq = r

\* C16: every prediction refresh eventually ends with an outcome: also when the
\* service never answers, the wait of the fetch is bounded and the call ends (like a
\* transport failure).
C16_EveryRefreshEnds ==
    \A r \in 1..MaxCalls : (r \in Pending) ~> Ended(r)

(***************************************************************************)
(* SpecPanel: the page as shipped, the response carrying up to MaxRegions  *)
(* regions; the user then clicks region layers, at most MaxTimers          *)
(* side-panel callbacks pending at a time.                                 *)
(***************************************************************************)
PanelKinds == {Region(IdA, 90), Region(IdB, 40), NoDrivers(IdUpperA, 60)}

PanelResponses ==
    {Body(rs, <<A2>>, AllGreen, AllFields) : rs \in SeqsUpTo(PanelKinds, MaxRegions)}

NextPanel ==
    \/ CallLoadAILayer(StartupCalls)
    \/ \E r \in Pending : FetchFails(r)
    \/ \E r \in Pending : \E data \in PanelResponses : ResponseArrives(r, data)
    \/ SidePanelTimer
    \/ Len(timers) < MaxTimers /\ \E n \in 1..Len(overlay) : ClickRegion(n)

SpecPanel == Init /\ [][NextPanel]_vars

\* the side panel shows the properties props: species, score, colour and explanation,
\* at full opacity
PanelShows(props) ==
    /\ panel.shown
    /\ panel.species = props.id
    /\ panel.risk_score = props.risk_score
    /\ panel.color = (IF props.risk_score > 80 THEN "#ef4444"
                      ELSE IF props.risk_score > 50 THEN "#f59e0b" ELSE "#10b981")
    /\ panel.expl = props.id
    /\ panel.opacity = "1"

\* C20: the deferred side-panel writes run in request order, so once none is pending
\* the panel shows the most recently requested region: the first region of the
\* response when there was no click since, the region of the last click otherwise;
\* with an empty region list, or a failed refresh, the panel is left unchanged.
C20_PanelShowsLastRequest ==
    timers = <<>>
    => IF arg.op = "click" THEN PanelShows(overlay[arg.layer].props)
       ELSE IF Len(done) = 1 /\ done[1].ok /\ resp[1].regions # <<>>
            THEN PanelShows(resp[1].regions[1])
            ELSE panel = InitialPanel

(***************************************************************************)
(* SpecStartup: the page as shipped. The script calls loadAILayer once;    *)
(* the response is any body with up to MaxRegions regions; the user then   *)
(* clicks grid links of the feed.                                          *)
(***************************************************************************)
StartupKinds ==
    {Region(IdA, 90), Region(IdUpperA, 60), Region(IdBareA, 40), Region(NoId, 40),
     Malformed(IdB)}

StartupAlerts == {<<>>, <<A1>>, <<A2, A1>>, <<A2, MalformedAlert>>}

StartupHealth == {AllGreen, [key \in {"us_data", "integrity"} |-> "yellow"]}

StartupResponses ==
    {Body(rs, al, h, has) :
        rs \in SeqsUpTo(StartupKinds, MaxRegions), al \in StartupAlerts,
        h \in StartupHealth, has \in SUBSET AllFields}

NextStartup ==
    \/ CallLoadAILayer(StartupCalls)
    \/ \E r \in Pending : FetchFails(r)
    \/ \E r \in Pending : \E data \in StartupResponses : ResponseArrives(r, data)
    \/ SidePanelTimer
    \/ \E i \in 1..Len(feed.items) : \E j \in 1..Len(feed.items[i].links) : ZoomToGrid(i, j)

SpecStartup == Init /\ [][NextStartup]_vars

\* the token without its fixed five-character prefix
StripPrefix(token) == SubSeq(token, Len(GridPrefix) + 1, Len(token))

HasLayer(id) == \E n \in 1..Len(overlay) : overlay[n].regionId = id

\* zoomToGrid resolved its token to a layer with identifier id and fitted the view to it
ResolvedTo(id) ==
    /\ arg.found # 0
    /\ overlay[arg.found].regionId = id
    /\ viewport = arg.found

NotFound == arg.found = 0 /\ viewport = arg.before

\* C7 (as stated): zoomToGrid strips 'grid-' from its token and returns the region whose
\* identifier equals the rest, or not-found (viewport unchanged) when there is none.
C7_ResolveStripsPrefix ==
    arg.op = "zoomToGrid"
    => IF HasLayer(StripPrefix(arg.gridId))
       THEN ResolvedTo(StripPrefix(arg.gridId))
       ELSE NotFound

\* C7 (amended): zoomToGrid compares the whole token, prefix included, exactly and
\* case-sensitively with the region identifiers of the overlay: it fits the view to the
\* last-added layer whose identifier equals the token, or reports not-found and leaves
\* the viewport unchanged when there is none.
C7_ResolveWholeToken ==
    arg.op = "zoomToGrid"
    => IF HasLayer(arg.gridId)
       THEN /\ ResolvedTo(arg.gridId)
            /\ \A m \in 1..Len(overlay) : m > arg.found => overlay[m].regionId # arg.gridId
       ELSE NotFound

\* 'grid-a' was resolved on an overlay that also holds 'grid-A'
C7_Witness ==
    /\ arg.op = "zoomToGrid"
    /\ arg.gridId = IdA
    /\ HasLayer(IdUpperA)
    /\ ResolvedTo(IdA)

RECURSIVE ValidIds(_)
\* the identifiers of the well-formed regions of a batch (properties and identifier
\* present), in the order of the batch
ValidIds(regions) ==
    IF regions = <<>> THEN <<>>
    ELSE IF Head(regions).hasProps /\ Head(regions).id # NoId
         THEN <<Head(regions).id>> \o ValidIds(Tail(regions))
         ELSE ValidIds(Tail(regions))

\* C9: of a received batch with a malformed region only that region is rejected: every
\* valid region before and after it is in the overlay, and the alerts and health of the
\* same response are applied.
C9_OnlyMalformedRejected ==
    (/\ Len(done) = 1
     /\ "regions" \in resp[1].has
     /\ ValidIds(resp[1].regions) # RegionIds(resp[1].regions)
     /\ \A i \in 1..Len(resp[1].alerts) : resp[1].alerts[i].hasDetail)
    => /\ OverlayIds = ValidIds(resp[1].regions)
       /\ ("alerts" \in resp[1].has => FeedShows(resp[1].alerts))
       /\ DotsShow(dots, resp[1].health)

RECURSIVE FirstOccurrences(_, _)
\* ids without the repetitions of the identifiers in seen or earlier in ids
FirstOccurrences(ids, seen) ==
    IF ids = <<>> THEN <<>>
    ELSE IF Head(ids) \in seen THEN FirstOccurrences(Tail(ids), seen)
         ELSE <<Head(ids)>> \o FirstOccurrences(Tail(ids), seen \cup {Head(ids)})

\* C17: the risk overlay holds at most one region layer per region identifier, also
\* when one response repeats an identifier; the regions kept from one batch appear in
\* the order of the response.
C17_OneLayerPerRegion ==
    /\ \A m, n \in 1..Len(overlay) :
          m # n => overlay[m].regionId # overlay[n].regionId
    /\ (Len(done) = 1 /\ done[1].ok)
        => OverlayIds = FirstOccurrences(RegionIds(resp[1].regions), {})

(***************************************************************************)
(* SpecFeed: the page as shipped, the response carrying one alert whose    *)
(* detail is any text of up to MaxFrags fragments.                         *)
(***************************************************************************)
Fragments == {GridPrefix, IdA, <<"0">>, <<"-">>, <<" ">>}

RECURSIVE Texts(_)
Texts(n) ==
    IF n = 0 THEN {<<>>}
    ELSE LET T == Texts(n - 1)
         IN  T \cup {t \o f : t \in T, f \in Fragments}

FeedResponses ==
    {Body(<<>>, <<Alert("INFO", t)>>, <<>>, {"regions", "alerts"}) : t \in Texts(MaxFrags)}

NextFeed ==
    \/ CallLoadAILayer(StartupCalls)
    \/ \E r \in Pending : FetchFails(r)
    \/ \E r \in Pending : \E data \in FeedResponses : ResponseArrives(r, data)

SpecFeed == Init /\ [][NextFeed]_vars

\* a word character or a hyphen
TokenTail(c) == c \in {"g", "r", "i", "d", "a", "A", "b", "0", "4", "2", "_", "-"}

\* 'grid-' followed by at least one word-or-hyphen character occurs in s at p
OccursAt(s, p) ==
    /\ p + 5 <= Len(s)
    /\ SubSeq(s, p, p + 4) = <<"g", "r", "i", "d", "-">>
    /\ TokenTail(s[p + 5])

\* the end of the occurrence at p: its trailing characters run as far as they can
EndOf(s, p) ==
    CHOOSE e \in (p + 5)..Len(s) :
        /\ \A k \in (p + 5)..e : TokenTail(s[k])
        /\ e = Len(s) \/ ~TokenTail(s[e + 1])

\* the occurrences no earlier occurrence overlaps
TokenStarts(s) ==
    {p \in 1..Len(s) :
        /\ OccursAt(s, p)
        /\ \A q \in 1..(p - 1) : OccursAt(s, q) => EndOf(s, q) < p}

RECURSIVE InOrder(_, _)
\* the tokens of s that start at the positions P, by increasing position
InOrder(s, P) ==
    IF P = {} THEN <<>>
    ELSE LET p == CHOOSE x \in P : \A y \in P : x <= y
         IN  <<SubSeq(s, p, EndOf(s, p))>> \o InOrder(s, P \ {p})

\* C6: the tokens updateAlertsFeed links are exactly the left-to-right, non-overlapping
\* occurrences of 'grid-' followed by one or more word-or-hyphen characters, in order of
\* appearance, repeated tokens kept; none when there is no such occurrence.
C6_LinksAreTheOccurrences ==
    (Len(done) = 1 /\ done[1].ok)
    => /\ Len(feed.items) = 1
       /\ feed.items[1].links =
            InOrder(resp[1].alerts[1].detail, TokenStarts(resp[1].alerts[1].detail))

\* a detail with a repeated token and a trailing bare 'grid-': the token is linked twice
C6_Witness ==
    /\ Len(done) = 1
    /\ done[1].ok
    /\ resp[1].alerts[1].detail = IdA \o <<" ">> \o IdA \o <<" ">> \o GridPrefix
    /\ feed.items[1].links = <<IdA, IdA>>

(***************************************************************************)
(* SpecRisk: the page as shipped, the response carrying one region whose   *)
(* risk score is any number of hundredths from 0 to MaxScore.              *)
(***************************************************************************)
RiskResponses ==
    {Body(<<Region(IdA, s)>>, <<>>, <<>>, {"regions"}) : s \in 0..MaxScore}

NextRisk ==
    \/ CallLoadAILayer(StartupCalls)
    \/ \E r \in Pending : FetchFails(r)
    \/ \E r \in Pending : \E data \in RiskResponses : ResponseArrives(r, data)
    \/ SidePanelTimer

SpecRisk == Init /\ [][NextRisk]_vars

\* colour c is the one of the risk class the claim gives score s
ClassColour(c, s) ==
    /\ c = "#ef4444" <=> s > 80
    /\ c = "#f59e0b" <=> (s > 50 /\ s <= 80)
    /\ c = "#10b981" <=> s <= 50

\* C8: for every score (in hundredths) the class of the polygon style and the class of
\* the side-panel score colour agree and are: high iff s > 0.8, medium iff
\* 0.5 < s <= 0.8, low iff s <= 0.5.
C8_RiskClasses ==
    (Len(done) = 1 /\ done[1].ok)
    => /\ Len(overlay) = 1
       /\ ClassColour(overlay[1].style.color, resp[1].regions[1].risk_score)
       /\ overlay[1].style.className = "risk-polygon-high"
            <=> resp[1].regions[1].risk_score > 80
       /\ panel.shown => /\ panel.risk_score = resp[1].regions[1].risk_score
                         /\ panel.color = overlay[1].style.color

\* the score 0.8 exactly, drawn as medium on the map and in the side panel
C8_Witness ==
    /\ Len(done) = 1
    /\ done[1].ok
    /\ resp[1].regions[1].risk_score = 80
    /\ overlay[1].style.color = "#f59e0b"
    /\ panel.shown
    /\ panel.color = "#f59e0b"

(***************************************************************************)
(* SpecStatus: the updateStatusUI calls of successive refreshes, one step  *)
(* per call, with any signal set of up to MaxSignals signals.              *)
(***************************************************************************)
\* the signal sets with at most n signals: any levels for the sources the mapping
\* lists, alone or next to one signal of a source it does not list
HealthSets(n) ==
    LET Known(k) ==
            UNION {[D -> Levels] :
                       D \in {E \in SUBSET KnownSources : Cardinality(E) <= k}}
        WithOther(h) ==
            [key \in DOMAIN h \cup {OtherSource} |->
                IF key = OtherSource THEN "red" ELSE h[key]]
    IN  Known(n) \cup {WithOther(h) : h \in Known(n - 1)}

\* updateStatusUI(health), as one step; arg records the call
UpdateStatusUI(health) ==
    /\ \E st \in {updateStatusUI(dots, health)} :
           /\ dots' = st.dots
           /\ masterLight' = st.master.light
           /\ statusText' = st.master.text
    /\ arg' = [op |-> "updateStatusUI", health |-> health]
    /\ UNCHANGED <<issued, done, resp, overlay, feed, panel, timers, viewport,
                   silent, logged, uncaught, infra, ui>>

StatusSets == HealthSets(MaxSignals)

NextStatus == \E health \in StatusSets : UpdateStatusUI(health)

SpecStatus == Init /\ [][NextStatus]_vars

Master(light, text) == masterLight = light /\ statusText = text

AllRed == [key \in KnownSources |-> "red"]

ProbeSamples ==
    {<<>>, AllGreen, AllRed, [AllGreen EXCEPT !["integrity"] = "yellow"],
     [key \in {"us_data"} |-> "green"], [key \in {OtherSource} |-> "red"]}

InitHistory ==
    \E h \in ProbeSamples : Start([op |-> "probe", health |-> h, seen |-> {}, pre |-> {}])

ObservedUpdateStatusUI(health) ==
    /\ \E st \in {updateStatusUI(dots, health)} :
           /\ dots' = st.dots
           /\ masterLight' = st.master.light
           /\ statusText' = st.master.text
           /\ arg' = IF health = arg.health
                     THEN [arg EXCEPT !.seen = @ \cup {<<st.master.light, st.master.text>>},
                                      !.pre = @ \cup {masterLight}]
                     ELSE arg
    /\ UNCHANGED <<issued, done, resp, overlay, feed, panel, timers, viewport,
                   silent, logged, uncaught, infra, ui>>

HistorySets == HealthSets(MaxHistorySignals)

NextHistory ==
    \E health \in HistorySets \cup {arg.health} : ObservedUpdateStatusUI(health)

SpecHistory == InitHistory /\ [][NextHistory]_vars

(***************************************************************************)
(* SpecSignals: the updateStatusUI calls of successive refreshes, one step *)
(* per call, with any signal set of up to MaxHistorySignals signals.       *)
(***************************************************************************)
NextSignals == \E health \in HistorySets : UpdateStatusUI(health)

SpecSignals == Init /\ [][NextSignals]_vars

\* the five source names of the claim and the indicator each one drives
FiveSources == {"maritime", "us_data", "canada_data", "integrity", "infrastructure"}

IndicatorOf ==
    [src \in FiveSources |->
        CASE src = "maritime" -> "dot-maritime"
          [] src = "us_data" -> "dot-us"
          [] src = "canada_data" -> "dot-canada"
          [] src = "integrity" -> "dot-gbif"
          [] src = "infrastructure" -> "dot-glfc"]

\* C19: updateStatusUI(h) ignores every signal whose source is not one of the five: an
\* indicator changes only when h names its source, and then shows the level h gives;
\* the indicator of a source h omits keeps its last report; the master status follows
\* the indicators alone, so a call with no signal of the five leaves it as the
\* previous call set it, whatever the level of the other signals.
C19_UnknownSignalsIgnored ==
    [][arg'.op = "updateStatusUI"
        => LET h == arg'.health
               named == DOMAIN h \cap FiveSources
           IN  /\ \A src \in named :
                     dots'[IndicatorOf[src]] = (IF h[src] = "green" THEN "none" ELSE h[src])
               /\ \A src \in FiveSources \ named :
                     dots'[IndicatorOf[src]] = dots[IndicatorOf[src]]
               /\ <<masterLight', statusText'>> =
                     (IF \E src \in FiveSources : dots'[IndicatorOf[src]] = "red"
                      THEN <<"red", "System Offline">>
                      ELSE IF \E src \in FiveSources : dots'[IndicatorOf[src]] = "yellow"
                           THEN <<"yellow", "Syncing Data...">>
                           ELSE <<"active", "Live Model Connected">>)
               /\ (named = {} /\ arg.op = "updateStatusUI")
                   => UNCHANGED <<dots, masterLight, statusText>>]_vars

\* a red signal of an unknown source, applied on a board whose only report is a yellow
\* us_data: the indicators and the yellow master status stay
C19_Witness ==
    /\ arg.op = "updateStatusUI"
    /\ arg.health = [key \in {OtherSource} |-> "red"]
    /\ dots = [InitialDots EXCEPT !["dot-us"] = "yellow"]
    /\ Master("yellow", "Syncing Data...")

====
